---- MODULE Spec2Model ----
(***************************************************************************)
(* A model of src/src/lib.rs: SHA-256 of a string, as the pipeline         *)
(* apply_padding -> create_blocks -> (create_message_schedule ->           *)
(* do_compression) per block -> get_digest.                                *)
(*                                                                         *)
(* TLC's integers are 32-bit signed, so a u32 is kept as the pair of its   *)
(* 16-bit halves <<hi, lo>>, standing for hi * 2^16 + lo.  A byte is an    *)
(* integer in 0..255, a Vec<u8> or array a sequence, and a String a TLA+   *)
(* string.  The code's index i (from 0) is index i + 1 here.               *)
(*                                                                         *)
(* A loop `for i in lo..hi` whose passes depend on one another is an       *)
(* operator on the range lo..hi that runs the passes in the order of i.    *)
(* It halves the range, and the first half is evaluated to a value t (the  *)
(* t \in {...} of a CHOOSE) before the second half starts from t: TLC      *)
(* would otherwise defer all passes and evaluate them nested in one        *)
(* another.                                                                *)
(***************************************************************************)
EXTENDS Integers, Sequences, FiniteSets, TLC

VARIABLES
    pc,             \* where sha256 stands: the call it makes next
    target_endian,  \* "little" or "big": the byte order of the build target
    input,          \* input.as_bytes()
    padded,         \* the Vec<u8> apply_padding returned
    blocks,         \* the Vec<[u8; 64]> create_blocks returned
    panicked,       \* TRUE once an unwrap() has panicked
    iter,           \* the blocks the for loop of sha256 has still to visit
    fed,            \* history: the blocks handed to create_message_schedule
    schedule,       \* the [u32; 64] create_message_schedule returned
    hash,           \* the running [u32; 8] of sha256
    digest          \* the String get_digest returned

vars == <<pc, target_endian, input, padded, blocks, panicked, iter, fed,
          schedule, hash, digest>>

(***************************************************************************)
(* u32, usize and slice primitives of the Rust standard library, as the    *)
(* code uses them.                                                         *)
(***************************************************************************)
U32(hi, lo) == <<hi, lo>>

Min(a, b) == IF a <= b THEN a ELSE b

\* ^ on two 16-bit halves, bit by bit.
RECURSIVE xor16(_, _)
xor16(a, b) ==
    IF a = 0 THEN b
    ELSE IF b = 0 THEN a
    ELSE ((a + b) % 2) + 2 * xor16(a \div 2, b \div 2)

\* & on two 16-bit halves, bit by bit.
RECURSIVE and16(_, _)
and16(a, b) ==
    IF a = 0 \/ b = 0 THEN 0
    ELSE ((a % 2) * (b % 2)) + 2 * and16(a \div 2, b \div 2)

\* x ^ y on u32.
bitxor(x, y) == U32(xor16(x[1], y[1]), xor16(x[2], y[2]))

\* x & y on u32.
bitand(x, y) == U32(and16(x[1], y[1]), and16(x[2], y[2]))

\* !x on u32.
bitnot(x) == U32(65535 - x[1], 65535 - x[2])

\* u32::wrapping_add: the sum modulo 2^32.
wrapping_add(x, y) ==
    LET lo == x[2] + y[2]
    IN  U32((x[1] + y[1] + (lo \div 65536)) % 65536, lo % 65536)

\* u32::rotate_right(n), 0 <= n < 32.
rotate_right(x, n) ==
    LET s == IF n >= 16 THEN U32(x[2], x[1]) ELSE x
        m == n % 16
    IN  IF m = 0 THEN s
        ELSE U32((s[1] \div 2^m) + (s[2] % 2^m) * 2^(16 - m),
                 (s[2] \div 2^m) + (s[1] % 2^m) * 2^(16 - m))

\* x >> n on u32, 0 <= n < 32: the vacated high bits are zero.
shr(x, n) ==
    IF n >= 16 THEN U32(0, x[1] \div 2^(n - 16))
    ELSE U32(x[1] \div 2^n, (x[2] \div 2^n) + (x[1] % 2^n) * 2^(16 - n))

\* u32::from_be_bytes on a 4-byte slice.
from_be_bytes(b) == U32(b[1] * 256 + b[2], b[3] * 256 + b[4])

\* u32::swap_bytes.
swap_bytes(x) ==
    U32((x[2] % 256) * 256 + (x[2] \div 256), (x[1] % 256) * 256 + (x[1] \div 256))

\* Mutant of to_be: the conversion left out.
to_be_omitted(x) == x

\* u32::to_be: the value whose in-memory bytes on this target are those of x
\* in big-endian order.
to_be(x) == IF target_endian = "little" THEN swap_bytes(x) ELSE x

\* transmute::<u32, [u8; 4]>: the in-memory bytes of x on this target.
transmute(x) ==
    IF target_endian = "little"
    THEN <<x[2] % 256, x[2] \div 256, x[1] % 256, x[1] \div 256>>
    ELSE <<x[1] \div 256, x[1] % 256, x[2] \div 256, x[2] % 256>>

\* isize::rem_euclid: the least non-negative remainder.
rem_euclid(a, n) == a % n

\* isize::abs.
abs(a) == IF a < 0 THEN 0 - a ELSE a

\* x >> n on usize; the inputs of the model are far below 2^31 bytes, so
\* usize never wraps.
RECURSIVE shr_usize(_, _)
shr_usize(x, n) == IF n = 0 \/ x = 0 THEN x ELSE shr_usize(x \div 2, n - 1)

\* `as u8`: truncation to the low 8 bits.
as_u8(x) == x % 256

\* slice::rotate_right(k) on an array, 0 <= k <= len: the last k elements
\* move to the front.
slice_rotate_right(v, k) ==
    SubSeq(v, Len(v) - k + 1, Len(v)) \o SubSeq(v, 1, Len(v) - k)

\* The array expression [v; n].
RECURSIVE repeat(_, _)
repeat(v, n) ==
    IF n = 0 THEN <<>>
    ELSE IF n = 1 THEN <<v>>
    ELSE repeat(v, n \div 2) \o repeat(v, n - (n \div 2))

\* Mutant of chunks: slice::rchunks, which starts from the end.
rchunks(v, size) ==
    [k \in 1..((Len(v) + size - 1) \div size) |->
        SubSeq(v, IF Len(v) - k * size < 0 THEN 1 ELSE Len(v) - k * size + 1,
               Len(v) - (k - 1) * size)]

\* slice::chunks(size): consecutive chunks, the last one shorter when the
\* length is no multiple of size.
chunks(v, size) ==
    [k \in 1..((Len(v) + size - 1) \div size) |->
        SubSeq(v, (k - 1) * size + 1, Min(k * size, Len(v)))]

\* <&[u8] as Read>::read: copies min(chunk length, buffer length) bytes to
\* the front of the buffer and returns Ok(that count); it has no Err case.
read(chunk, buf) ==
    LET amt == Min(Len(buf), Len(chunk))
    IN  [ok  |-> TRUE,
         amt |-> amt,
         buf |-> [k \in 1..Len(buf) |-> IF k <= amt THEN chunk[k] ELSE buf[k]]]

\* The digits of {:x}.
HexDigit(d) == SubSeq("0123456789abcdef", d + 1, d + 1)

\* {:x}: lowercase hexadecimal, no leading zeros.
RECURSIVE LowerHex(_)
LowerHex(n) ==
    IF n < 16 THEN HexDigit(n) ELSE LowerHex(n \div 16) \o HexDigit(n % 16)

\* The 0-flag and width of a format spec: zeros on the left up to width.
RECURSIVE ZeroPad(_, _)
ZeroPad(s, width) == IF Len(s) >= width THEN s ELSE ZeroPad("0" \o s, width)

\* Mutant of fmt_02x: the format "{:x}", without the width.
fmt_x(byte) == LowerHex(byte)

\* format "{:02x}" of a byte.
fmt_02x(byte) == ZeroPad(LowerHex(byte), 2)

\* SQRT_CONST: the initial hash.
SQRT_CONST == <<
    U32(\H6a09, \He667), U32(\Hbb67, \Hae85), U32(\H3c6e, \Hf372), U32(\Ha54f, \Hf53a),
    U32(\H510e, \H527f), U32(\H9b05, \H688c), U32(\H1f83, \Hd9ab), U32(\H5be0, \Hcd19) >>

\* CBRT_CONST: the round constants.
CBRT_CONST == <<
    U32(\H428a, \H2f98), U32(\H7137, \H4491), U32(\Hb5c0, \Hfbcf), U32(\He9b5, \Hdba5),
    U32(\H3956, \Hc25b), U32(\H59f1, \H11f1), U32(\H923f, \H82a4), U32(\Hab1c, \H5ed5),
    U32(\Hd807, \Haa98), U32(\H1283, \H5b01), U32(\H2431, \H85be), U32(\H550c, \H7dc3),
    U32(\H72be, \H5d74), U32(\H80de, \Hb1fe), U32(\H9bdc, \H06a7), U32(\Hc19b, \Hf174),
    U32(\He49b, \H69c1), U32(\Hefbe, \H4786), U32(\H0fc1, \H9dc6), U32(\H240c, \Ha1cc),
    U32(\H2de9, \H2c6f), U32(\H4a74, \H84aa), U32(\H5cb0, \Ha9dc), U32(\H76f9, \H88da),
    U32(\H983e, \H5152), U32(\Ha831, \Hc66d), U32(\Hb003, \H27c8), U32(\Hbf59, \H7fc7),
    U32(\Hc6e0, \H0bf3), U32(\Hd5a7, \H9147), U32(\H06ca, \H6351), U32(\H1429, \H2967),
    U32(\H27b7, \H0a85), U32(\H2e1b, \H2138), U32(\H4d2c, \H6dfc), U32(\H5338, \H0d13),
    U32(\H650a, \H7354), U32(\H766a, \H0abb), U32(\H81c2, \Hc92e), U32(\H9272, \H2c85),
    U32(\Ha2bf, \He8a1), U32(\Ha81a, \H664b), U32(\Hc24b, \H8b70), U32(\Hc76c, \H51a3),
    U32(\Hd192, \He819), U32(\Hd699, \H0624), U32(\Hf40e, \H3585), U32(\H106a, \Ha070),
    U32(\H19a4, \Hc116), U32(\H1e37, \H6c08), U32(\H2748, \H774c), U32(\H34b0, \Hbcb5),
    U32(\H391c, \H0cb3), U32(\H4ed8, \Haa4a), U32(\H5b9c, \Hca4f), U32(\H682e, \H6ff3),
    U32(\H748f, \H82ee), U32(\H78a5, \H636f), U32(\H84c8, \H7814), U32(\H8cc7, \H0208),
    U32(\H90be, \Hfffa), U32(\Ha450, \H6ceb), U32(\Hbef9, \Ha3f7), U32(\Hc671, \H78f2) >>

(***************************************************************************)
(* The functions of lib.rs.                                                *)
(***************************************************************************)
\* sig0: x.rotate_right(7) ^ x.rotate_right(18) ^ x >> 3.
sig0(x) == bitxor(bitxor(rotate_right(x, 7), rotate_right(x, 18)), shr(x, 3))

\* Mutant of sig1: the shift x >> 10 taken as a rotation.
sig1_rotating(x) ==
    bitxor(bitxor(rotate_right(x, 17), rotate_right(x, 19)), rotate_right(x, 10))

\* sig1: x.rotate_right(17) ^ x.rotate_right(19) ^ x >> 10.
sig1(x) == bitxor(bitxor(rotate_right(x, 17), rotate_right(x, 19)), shr(x, 10))

\* usig0: x.rotate_right(2) ^ x.rotate_right(13) ^ x.rotate_right(22).
usig0(x) ==
    bitxor(bitxor(rotate_right(x, 2), rotate_right(x, 13)), rotate_right(x, 22))

\* usig1: x.rotate_right(6) ^ x.rotate_right(11) ^ x.rotate_right(25).
usig1(x) ==
    bitxor(bitxor(rotate_right(x, 6), rotate_right(x, 11)), rotate_right(x, 25))

\* Mutant of ch: the complement of x is dropped.
ch_without_not(x, y, z) == bitxor(bitand(x, y), bitand(x, z))

\* ch: (x & y) ^ (!x & z).
ch(x, y, z) == bitxor(bitand(x, y), bitand(bitnot(x), z))

\* maj: (x & y) ^ (x & z) ^ (y & z).
maj(x, y, z) == bitxor(bitxor(bitand(x, y), bitand(x, z)), bitand(y, z))

\* Mutant of apply_padding: the remainder taken with %, which keeps the sign
\* of 55 - byte_length, instead of rem_euclid.
apply_padding_signed_rem(bytes) ==
    LET byte_length    == Len(bytes)
        bit_length     == byte_length * 8
        terminated     == Append(bytes, 128)
        difference     == 55 - byte_length
        remainder      == IF difference < 0
                          THEN 0 - ((0 - difference) % 64)
                          ELSE difference % 64
        padding_length == abs(remainder)
        zeros          == [k \in 1..padding_length |-> 0]
        suffix         == [k \in 1..8 |-> as_u8(shr_usize(bit_length, (8 - k) * 8))]
    IN  (terminated \o zeros) \o suffix

\* Mutant of apply_padding: the suffix written for i = 0 up to 7 (.rev() left
\* out), least significant byte first.
apply_padding_suffix_le(bytes) ==
    LET byte_length    == Len(bytes)
        bit_length     == byte_length * 8
        terminated     == Append(bytes, 128)
        padding_length == abs(rem_euclid(55 - byte_length, 64))
        zeros          == [k \in 1..padding_length |-> 0]
        suffix         == [k \in 1..8 |-> as_u8(shr_usize(bit_length, (k - 1) * 8))]
    IN  (terminated \o zeros) \o suffix

\* Mutant of apply_padding: a remainder of 0 padded with a whole block of
\* zeros.
apply_padding_full_block(bytes) ==
    LET byte_length    == Len(bytes)
        bit_length     == byte_length * 8
        terminated     == Append(bytes, 128)
        remainder      == abs(rem_euclid(55 - byte_length, 64))
        padding_length == IF remainder = 0 THEN 64 ELSE remainder
        zeros          == [k \in 1..padding_length |-> 0]
        suffix         == [k \in 1..8 |-> as_u8(shr_usize(bit_length, (8 - k) * 8))]
    IN  (terminated \o zeros) \o suffix

\* apply_padding: the bytes, 0x80, padding_length zeros, then the eight bytes
\* (bit_length >> i * 8) as u8 for i = 7 down to 0.
apply_padding(bytes) ==
    LET byte_length    == Len(bytes)
        bit_length     == byte_length * 8
        terminated     == Append(bytes, 128)
        padding_length == abs(rem_euclid(55 - byte_length, 64))
        zeros          == [k \in 1..padding_length |-> 0]
        suffix         == [k \in 1..8 |-> as_u8(shr_usize(bit_length, (8 - k) * 8))]
    IN  (terminated \o zeros) \o suffix

\* create_blocks: one zeroed [u8; 64] per chunk, filled by read; the unwrap
\* panics on an Err.
create_blocks(buffer) ==
    LET cs      == chunks(buffer, 64)
        zeroed  == repeat(0, 64)
        results == [k \in 1..Len(cs) |-> read(cs[k], zeroed)]
    IN  IF \E k \in 1..Len(cs) : ~results[k].ok
        THEN [panicked |-> TRUE, blocks |-> <<>>]
        ELSE [panicked |-> FALSE, blocks |-> [k \in 1..Len(cs) |-> results[k].buf]]

\* The first loop of create_message_schedule, passes lo..hi-1:
\* schedule[i] = u32::from_be_bytes(block[i * 4..(i + 1) * 4]).
RECURSIVE fill_schedule(_, _, _, _)
fill_schedule(s, block, lo, hi) ==
    IF lo >= hi THEN s
    ELSE IF hi - lo = 1
    THEN [s EXCEPT ![lo + 1] = from_be_bytes(SubSeq(block, lo * 4 + 1, (lo + 1) * 4))]
    ELSE LET mid == (lo + hi) \div 2
         IN  CHOOSE result \in {fill_schedule(t, block, mid, hi) :
                                   t \in {fill_schedule(s, block, lo, mid)}} : TRUE

\* The second loop of create_message_schedule, passes lo..hi-1.
RECURSIVE extend_schedule(_, _, _)
extend_schedule(s, lo, hi) ==
    IF lo >= hi THEN s
    ELSE IF hi - lo = 1
    THEN LET calculated ==
                 wrapping_add(
                     wrapping_add(
                         wrapping_add(sig1(s[(lo - 2) + 1]), s[(lo - 7) + 1]),
                         sig0(s[(lo - 15) + 1])),
                     s[(lo - 16) + 1])
         IN  [s EXCEPT ![lo + 1] = calculated]
    ELSE LET mid == (lo + hi) \div 2
         IN  CHOOSE result \in {extend_schedule(t, mid, hi) :
                                   t \in {extend_schedule(s, lo, mid)}} : TRUE

\* create_message_schedule: a zeroed [u32; 64], words 0..15 from the block,
\* words 16..63 by the recurrence.
create_message_schedule(block) ==
    extend_schedule(fill_schedule(repeat(U32(0, 0), 64), block, 0, 16), 16, 64)

\* The body of the first loop of do_compression: temp1, temp2,
\* registers.rotate_right(1), then registers[0] and registers[4].
round(registers, word, constant) ==
    LET temp1 ==
            wrapping_add(
                wrapping_add(
                    wrapping_add(
                        wrapping_add(usig1(registers[5]),
                                     ch(registers[5], registers[6], registers[7])),
                        registers[8]),
                    constant),
                word)
        temp2 == wrapping_add(usig0(registers[1]),
                              maj(registers[1], registers[2], registers[3]))
        rotated == slice_rotate_right(registers, 1)
        first   == [rotated EXCEPT ![1] = wrapping_add(temp1, temp2)]
    IN  [first EXCEPT ![5] = wrapping_add(first[5], temp1)]

\* The first loop of do_compression, passes lo..hi-1.
RECURSIVE rounds(_, _, _, _)
rounds(registers, sched, lo, hi) ==
    IF lo >= hi THEN registers
    ELSE IF hi - lo = 1 THEN round(registers, sched[lo + 1], CBRT_CONST[lo + 1])
    ELSE LET mid == (lo + hi) \div 2
         IN  CHOOSE result \in {rounds(r, sched, mid, hi) :
                                   r \in {rounds(registers, sched, lo, mid)}} : TRUE

\* Mutant of do_compression: the second loop, the feed-forward, is left out.
do_compression_no_feed_forward(initial, sched) == rounds(initial, sched, 0, 64)

\* do_compression: 64 rounds on a copy of initial, then
\* registers[i] = initial[i].wrapping_add(registers[i]) for i in 0..8.
do_compression(initial, sched) ==
    LET registers == rounds(initial, sched, 0, 64)
    IN  [i \in 1..8 |-> wrapping_add(initial[i], registers[i])]

\* The first loop of get_digest, passes lo..hi-1:
\* bytes[i * 4..(i + 1) * 4].copy_from_slice(&transmute(compressed[i].to_be())).
RECURSIVE copy_words(_, _, _, _)
copy_words(bytes, compressed, lo, hi) ==
    IF lo >= hi THEN bytes
    ELSE IF hi - lo = 1
    THEN (SubSeq(bytes, 1, lo * 4) \o transmute(to_be(compressed[lo + 1])))
             \o SubSeq(bytes, (lo + 1) * 4 + 1, Len(bytes))
    ELSE LET mid == (lo + hi) \div 2
         IN  CHOOSE result \in {copy_words(b, compressed, mid, hi) :
                                   b \in {copy_words(bytes, compressed, lo, mid)}} : TRUE

\* The second loop of get_digest, bytes lo..hi-1:
\* write!(digest, "{:02x}", byte).
RECURSIVE write_bytes(_, _, _, _)
write_bytes(out, bytes, lo, hi) ==
    IF lo >= hi THEN out
    ELSE IF hi - lo = 1 THEN out \o fmt_02x(bytes[lo + 1])
    ELSE LET mid == (lo + hi) \div 2
         IN  CHOOSE result \in {write_bytes(s, bytes, mid, hi) :
                                   s \in {write_bytes(out, bytes, lo, mid)}} : TRUE

\* get_digest: the eight words into a zeroed [u8; 32], then the 32 bytes in
\* hexadecimal into an empty String.
get_digest(compressed) ==
    write_bytes("", copy_words(repeat(0, 32), compressed, 0, 8), 0, 32)

(***************************************************************************)
(* sha256, one action per call it makes.                                   *)
(***************************************************************************)
\* let padded = apply_padding(input_bytes);
ApplyPadding ==
    /\ pc = "apply_padding"
    /\ padded' = apply_padding(input)
    /\ pc' = "create_blocks"
    /\ UNCHANGED <<target_endian, input, blocks, panicked, iter, fed, schedule,
                   hash, digest>>

\* let blocks = create_blocks(padded); let mut hash = SQRT_CONST;
CreateBlocks ==
    /\ pc = "create_blocks"
    /\ LET result == create_blocks(padded)
       IN  /\ panicked' = result.panicked
           /\ blocks' = result.blocks
           /\ iter' = result.blocks
           /\ pc' = IF result.panicked THEN "panic" ELSE "loop"
    /\ hash' = SQRT_CONST
    /\ UNCHANGED <<target_endian, input, padded, fed, schedule, digest>>

\* for block in blocks { let schedule = create_message_schedule(&block);
CreateMessageSchedule ==
    /\ pc = "loop"
    /\ iter # <<>>
    /\ schedule' = create_message_schedule(Head(iter))
    /\ fed' = Append(fed, Head(iter))
    /\ iter' = Tail(iter)
    /\ pc' = "do_compression"
    /\ UNCHANGED <<target_endian, input, padded, blocks, panicked, hash, digest>>

\* hash = do_compression(hash, &schedule); }
DoCompression ==
    /\ pc = "do_compression"
    /\ hash' = do_compression(hash, schedule)
    /\ pc' = "loop"
    /\ UNCHANGED <<target_endian, input, padded, blocks, panicked, iter, fed,
                   schedule, digest>>

\* get_digest(&hash)
GetDigest ==
    /\ pc = "loop"
    /\ iter = <<>>
    /\ digest' = get_digest(hash)
    /\ pc' = "done"
    /\ UNCHANGED <<target_endian, input, padded, blocks, panicked, iter, fed,
                   schedule, hash>>

(***************************************************************************)
(* Inputs.  sha256 takes a &str, whose bytes are valid UTF-8; the private  *)
(* functions take any bytes or words of their parameter types.             *)
(***************************************************************************)
MaxInputLen == 64
MaxPadLen == 130
MaxBufferLen == 130
MaxStep == 15
MaxWordStep == 5

\* "abcdefghijklmnopqrstuvwxyzabc...", n bytes long.
Alphabet(n) == [k \in 1..n |-> 97 + ((k - 1) % 26)]

\* n bytes: first, first + step, first + 2 * step, ... modulo 256.
Fill(n, first, step) == [k \in 1..n |-> (first + (k - 1) * step) % 256]

\* n words whose halves run from h and l in strides of step.
WordFill(n, h, l, step) ==
    [k \in 1..n |-> U32((h + (k - 1) * step * 4099) % 65536,
                        (l + (k - 1) * step * 257) % 65536)]

\* "The quick brown fox jumps over the lazy dog", of tests::test_sha256.
QuickBrownFox ==
    <<84, 104, 101, 32, 113, 117, 105, 99, 107, 32, 98, 114, 111, 119, 110, 32, 102,
    111, 120, 32, 106, 117, 109, 112, 115, 32, 111, 118, 101, 114, 32, 116, 104, 101,
    32, 108, 97, 122, 121, 32, 100, 111, 103>>

\* "https://lerners.io", of tests::test_sha256.
LernersUrl ==
    <<104, 116, 116, 112, 115, 58, 47, 47, 108, 101, 114, 110, 101, 114, 115, 46, 105,
    111>>

\* "abcdbcdecdefdefgefghfghighijhijkijkljklmklmnlmnomnopnopq": 56 bytes, so two
\* blocks.
TwoBlockString ==
    <<97, 98, 99, 100, 98, 99, 100, 101, 99, 100, 101, 102, 100, 101, 102, 103, 101,
    102, 103, 104, 102, 103, 104, 105, 103, 104, 105, 106, 104, 105, 106, 107, 105,
    106, 107, 108, 106, 107, 108, 109, 107, 108, 109, 110, 108, 109, 110, 111, 109,
    110, 111, 112, 110, 111, 112, 113>>

\* A string with characters of 2, 3 and 4 bytes in UTF-8: h, e-acute, llo, comma,
\* space, w, o-umlaut, rld, space, the euro sign, space, U+1F600.
MultiByteString ==
    <<104, 195, 169, 108, 108, 111, 44, 32, 119, 195, 182, 114, 108, 100, 32, 226, 130,
    172, 32, 240, 159, 152, 128>>

TestStrings == {QuickBrownFox, LernersUrl, TwoBlockString, MultiByteString}

LongLengths == {119, 120}

Inputs ==
    {Alphabet(n) : n \in 0..MaxInputLen} \cup {Alphabet(n) : n \in LongLengths}
        \cup TestStrings

ByteFills == {<<0, 0>>, <<128, 0>>, <<255, 0>>, <<1, 1>>, <<250, 3>>}

PadInputs == {Fill(n, f[1], f[2]) : n \in 0..MaxPadLen, f \in ByteFills}

Buffers == {Fill(n, f[1], f[2]) : n \in 0..MaxBufferLen, f \in ByteFills}

TestBlocks == {Fill(64, first, step) : first \in {0, 1, 128, 255}, step \in 0..MaxStep}

TestStates ==
    {SQRT_CONST} \cup {WordFill(8, h, h, step) : h \in {0, 65535}, step \in {0, 1}}

TestSchedules ==
    {WordFill(64, h, l, step) : h \in {0, 65535}, l \in {1, 65535}, step \in 0..MaxWordStep}

DigestStates ==
    {SQRT_CONST} \cup {WordFill(8, h, l, step) :
                          h \in {0, 15, 65535}, l \in {0, 2560}, step \in 0..MaxWordStep}

Targets == {"little", "big"}

(***************************************************************************)
(* Specifications.  Spec is sha256 from its call to its return; the others *)
(* call one private function on inputs of its parameter type.              *)
(***************************************************************************)
Init ==
    /\ pc = "apply_padding"
    /\ target_endian \in Targets
    /\ input \in Inputs
    /\ padded = <<>>
    /\ blocks = <<>>
    /\ panicked = FALSE
    /\ iter = <<>>
    /\ fed = <<>>
    /\ schedule = <<>>
    /\ hash = <<>>
    /\ digest = ""

Next ==
    \/ ApplyPadding
    \/ CreateBlocks
    \/ CreateMessageSchedule
    \/ DoCompression
    \/ GetDigest

Spec == Init /\ [][Next]_vars

InitPad ==
    /\ pc = "apply_padding"
    /\ target_endian \in Targets
    /\ input \in PadInputs
    /\ padded = <<>>
    /\ blocks = <<>>
    /\ panicked = FALSE
    /\ iter = <<>>
    /\ fed = <<>>
    /\ schedule = <<>>
    /\ hash = <<>>
    /\ digest = ""

NextPad == ApplyPadding

SpecPad == InitPad /\ [][NextPad]_vars

InitBlocks ==
    /\ pc = "create_blocks"
    /\ target_endian \in Targets
    /\ input = <<>>
    /\ padded \in Buffers
    /\ blocks = <<>>
    /\ panicked = FALSE
    /\ iter = <<>>
    /\ fed = <<>>
    /\ schedule = <<>>
    /\ hash = <<>>
    /\ digest = ""

NextBlocks == CreateBlocks

SpecBlocks == InitBlocks /\ [][NextBlocks]_vars

InitSchedule ==
    /\ pc = "loop"
    /\ target_endian \in Targets
    /\ input = <<>>
    /\ padded = <<>>
    /\ \E block \in TestBlocks : blocks = <<block>> /\ iter = <<block>>
    /\ panicked = FALSE
    /\ fed = <<>>
    /\ schedule = <<>>
    /\ hash = SQRT_CONST
    /\ digest = ""

NextSchedule == CreateMessageSchedule

SpecSchedule == InitSchedule /\ [][NextSchedule]_vars

InitCompress ==
    /\ pc = "do_compression"
    /\ target_endian \in Targets
    /\ input = <<>>
    /\ padded = <<>>
    /\ blocks = <<>>
    /\ panicked = FALSE
    /\ iter = <<>>
    /\ fed = <<>>
    /\ schedule \in TestSchedules
    /\ hash \in TestStates
    /\ digest = ""

NextCompress == DoCompression

SpecCompress == InitCompress /\ [][NextCompress]_vars

InitDigest ==
    /\ pc = "loop"
    /\ target_endian \in Targets
    /\ input = <<>>
    /\ padded = <<>>
    /\ blocks = <<>>
    /\ panicked = FALSE
    /\ iter = <<>>
    /\ fed = <<>>
    /\ schedule = <<>>
    /\ hash \in DigestStates
    /\ digest = ""

NextDigest == GetDigest

SpecDigest == InitDigest /\ [][NextDigest]_vars

(***************************************************************************)
(* The claims.  What a claim says of a word is stated on the word's bits,  *)
(* bit 0 the least significant, not with the operators above.              *)
(***************************************************************************)
\* Bit i of the word x.
BitOf(x, i) == IF i < 16 THEN (x[2] \div 2^i) % 2 ELSE (x[1] \div 2^(i - 16)) % 2

RECURSIVE Weigh(_, _, _)
Weigh(bits, base, i) ==
    IF i = 16 THEN 0 ELSE bits[base + i] * 2^i + Weigh(bits, base, i + 1)

\* The word whose bit i is bits[i].
WordOf(bits) == U32(Weigh(bits, 16, 0), Weigh(bits, 0, 0))

RECURSIVE SumHalves(_, _)
SumHalves(ws, half) ==
    IF ws = <<>> THEN 0 ELSE Head(ws)[half] + SumHalves(Tail(ws), half)

\* The sum of at most eight words, modulo 2^32.
SumMod32(ws) ==
    LET lo == SumHalves(ws, 2)
        hi == SumHalves(ws, 1) + (lo \div 65536)
    IN  U32(hi % 65536, lo % 65536)

\* rotr(x, n) and x >> n, bit by bit.
RotrBit(x, n, i) == BitOf(x, (i + n) % 32)

ShrBit(x, n, i) == IF i + n <= 31 THEN BitOf(x, i + n) ELSE 0

HexChars == <<"0", "1", "2", "3", "4", "5", "6", "7", "8", "9",
              "a", "b", "c", "d", "e", "f">>

CharAt(s, k) == SubSeq(s, k, k)

\* The digests of Alphabet(0), Alphabet(1), ... under the SHA-256 of FIPS 180-4.
C1_AlphabetDigests == <<
    "e3b0c44298fc1c149afbf4c8996fb92427ae41e4649b934ca495991b7852b855",
    "ca978112ca1bbdcafac231b39a23dc4da786eff8147c4e72b9807785afee48bb",
    "fb8e20fc2e4c3f248c60c39bd652f3c1347298bb977b8b4d5903b85055620603",
    "ba7816bf8f01cfea414140de5dae2223b00361a396177a9cb410ff61f20015ad",
    "88d4266fd4e6338d13b845fcf289579d209c897823b9217da3e161936f031589",
    "36bbe50ed96841d10443bcb670d6554f0a34b761be67ec9c4a8ad2c0c44ca42c",
    "bef57ec7f53a6d40beb640a780a639c83bc29ac8a9816f1fc6c5c6dcd93c4721",
    "7d1a54127b222502f5b79b5fb0803061152a44f92b37e23c6527baf665d4da9a",
    "9c56cc51b374c3ba189210d5b6d4bf57790d351c96c47c02190ecf1e430635ab",
    "19cc02f26df43cc571bc9ed7b0c4d29224a3ec229529221725ef76d021c8326f",
    "72399361da6a7754fec986dca5b7cbaf1c810a28ded4abaf56b2106d06cb78b0",
    "ca2f2069ea0c6e4658222e06f8dd639659cbb5e67cbbba6734bc334a3799bc68",
    "d682ed4ca4d989c134ec94f1551e1ec580dd6d5a6ecde9f3d35e6e4a717fbde4",
    "ff10304f1af23606ede1e2d8abcdc94c229047a61458d809d8bbd53ede1f6598",
    "0653c7e992d7aad40cb2635738b870e4c154afb346340d02c797d490dd52d5f9",
    "41c7760c50efde99bf574ed8fffc7a6dd3405d546d3da929b214c8945acf8a97",
    "f39dac6cbaba535e2c207cd0cd8f154974223c848f727f98b3564cea569b41cf",
    "918a954ac4dfb54ac39f068d9868227f69ab39bc362e2c9b0083bf6a109d6ad7",
    "2d1222692afaf56e95a8ab00879ed023a00db3e26fa14236e542748579285efa",
    "e250f886728b77ba63722c7e65fc73e203101a84281b32332fd67cc6a1ae3e22",
    "dd65eea0329dcb94b17187af9dff28c31a1d78026737a16af75979a1fa4618e5",
    "25f62a5a3d414ec6e20907df7f367f2b72625aade552db64c07933f6044fc49a",
    "f69f9b70d1c9a5442258ca76f8b0a7a45fcb4e31c36141b6357ec591328b0624",
    "7f07818e14d08944ce145629ca54332f5cfad148c590efbcb5c377f4d336e5f4",
    "93b0cabf8668e0c534c52a568957499e12a284f59d97dc9b2725ef836804875b",
    "69b980549d5045969285133df773ae91ddd5d0e5c73dc8ee959b2eb223bc5fbb",
    "71c480df93d6ae2f1efad1447c66c9525e316218cf51fc8d9ed832f2daf18b73",
    "c0be77ba06c7527e583ecde650d5c8c017cbee265bcabe6ed3352b4c858cbfcf",
    "270670bb64a4547b748092719837616dee178fffc8f40f030f1290b83aa13582",
    "2e65b6f3b2eddfbcf5b077e0845a537592761d8e57200f5ff280f008af5180c3",
    "df2d142fd9415b73705b2484363581c0910b74898a7011b2be696f7084647b69",
    "4d98c73bb50b90ecb86d48fe03a9c1e5dbc4b7d26eeeef2582eebce5845de9b8",
    "2070df23e0d957590bc67a03d7a244173059dd2a2ad4a8d5a01a3e6eed013fec",
    "dbb6618fd94386e229935a2d33d701b89e18f145106db1dd7712f3e8b5ef4443",
    "98fe2ed74a9fa50896363a9cb9398cd628367f4a03bf8cbe7ea1674fc6b5815c",
    "010fba2600e0ebf9efa7ac048c938b3455883531b4a7ddac62a46d09888cc4c6",
    "ec035ff9767b3930917c30f68a63e2aec968dc7f59ec9b64ba91d15e65256554",
    "21a033dc492ed2af29b237abb320ae4bb001e35326838ed640acaf83737822cc",
    "9e0d2609c19c0f11d19c17f8830bb07d38445a0fb84544c4b12268929da767b7",
    "20a2df0122f3b93ff4235b1d8a1e85c6c852d970f79391e9624047f3f3ee55df",
    "78a5851af081d27601cd6494ff68cfd73562208d47c83b6306ba44b2bd4f6645",
    "175bc6569c59e2f240196e958d870e48627fec6ce8ddfecd8917231d2289f93b",
    "6a3ac112afeda4d0930297b32f418f13f4a45e1158beed0a6f4b98ecac2ad655",
    "91468b4a35e1b0e09503bc05a91e38e045ff79cee5b4509c32a19d9b0f40ee20",
    "7504363e5dff1f0f151b4f8692142b4bafeb26c2b8157344300a577826359467",
    "18f6ab4cb530cee9533058f48bd01671c9b4592a3fdea73910e4a0ef64694118",
    "9ff224d110143355fec7c271b3e7fd86af8a0941281fc9ad4b4427fe81c5d34f",
    "1c29f0d8942833a8f68c13987c1b551a41cef37043d55999df442e4ade6b28ad",
    "7f9917dd546ebc572d4815c72f7ccfb0a50f324b01ab9319fc8a53fc14903a28",
    "d161912df25cf60150dfb0bea07af1dd701aa007308b56b862f55120c3f5c81e",
    "7bffff75fb0ad48ee68f7500015d78b38629e7c305fd363d23775691ff2c43c8",
    "ced7e58977e264e12a89984caa8feea1f1504a25eb5a409d7f25face09330a6a",
    "2378d314a98e2394fec97b780aa58704a667b7dba1769473c494f4ab3f67e236",
    "2f1cd9097e5f39240c61bc688a7520fbaf4f78f2ffd45a6d8bed560ac92a0f6a",
    "ff44b236434f4d03d1a3b8bce65d3b89750afdc2591f85c9b1d8d77e116ea9e0",
    "595615dbe4f0f407ae397d08b4c2cb870cb9b0e11937416f950c5160acf9c005",
    "784f623b787495078e93ff28a25b581df0584055a7e71d8cd90c454716b92f51",
    "808f0738aa4401bdee842e5a15a7baad5809f976d8eb6f9bd2683cebd2e8d671",
    "690c197164b3bafc3a2b94834a9607edbec7b32bb77e33c115f7a3e03fbc90a7",
    "5c23b54f1767aa26ae7678adaab68e4b843a21d0572cf1a45060bbf55a3907b7",
    "ebd1e8d5a162faa552fff8894f2b77001124b928d526a2d6b74f788658f63f1e",
    "050c761c092b0b58514e3b980f9eeabcff934921b9da20c89b67a1a5da84a083",
    "78a08480079addf8f63112aa195cbb6e940e3bf2efcd331920f0fda2a3556ac6",
    "5ca3e1ef5207490eac01a795e5cc94d59582a5118bf9534665c8668d87aa647c",
    "2fcd5a0d60e4c941381fcc4e00a4bf8be422c3ddfafb93c809e8d1e2bfffae8e",
    "1b3cd1877ab2f2f19f7be001722554f336cb799df0329de0bb4c118dc6abc06d" >>

C1_LongDigests == {
    <<119, "faef67da856d6fd9c8d12f9ed0a4fefd3cf0ce085ab43e2907418d457e3c354b">>,
    <<120, "c9512b08619c19fbb503c7da6b46ef20301e5f7a7a5f43989182398536f5c5c8">>,
    <<121, "6ce395ba6c616565668116ef1d4ab2894dd21b9c3e11e42ec5f57f77417fd623">> }

C1_StringDigests == {
    <<QuickBrownFox, "d7a8fbb307d7809469ca9abcb0082e4f8d5651e46d3cdb762d02d0bf37c9e592">>,
    <<LernersUrl, "b9424adf20d7c73d4a104a5b8ad20c58499955ec63e9a9b9325ca880ff4276ec">>,
    <<TwoBlockString, "248d6a61d20638b8e5c026930c3e6039a33ce45964ff2167f6ecedd419db06c1">>,
    <<MultiByteString, "156ea18d0e1c03b15c48d31b2531d96e72d713ae55f7175096bb31c869e608b1">> }

\* The standard digests of an input: exactly one for an input of the model.
C1_Expected(bytes) ==
    {C1_AlphabetDigests[n + 1] :
        n \in {m \in 0..(Len(C1_AlphabetDigests) - 1) : bytes = Alphabet(m)}}
    \cup {e[2] : e \in {x \in C1_LongDigests : bytes = Alphabet(x[1])}}
    \cup {e[2] : e \in {x \in C1_StringDigests : bytes = x[1]}}

\* C1: for every input string, sha256 returns the standard SHA-256 digest of
\* its bytes in lowercase hex; in particular for "", for "The quick brown
\* fox jumps over the lazy dog" and for "abc".
C1_StandardDigest ==
    pc = "done" =>
        /\ C1_Expected(input) = {digest}
        /\ input = <<>> =>
             digest = "e3b0c44298fc1c149afbf4c8996fb92427ae41e4649b934ca495991b7852b855"
        /\ input = QuickBrownFox =>
             digest = "d7a8fbb307d7809469ca9abcb0082e4f8d5651e46d3cdb762d02d0bf37c9e592"
        /\ input = <<97, 98, 99>> =>
             digest = "ba7816bf8f01cfea414140de5dae2223b00361a396177a9cb410ff61f20015ad"

C1_Witness ==
    /\ pc = "done"
    /\ input = QuickBrownFox
    /\ digest = "d7a8fbb307d7809469ca9abcb0082e4f8d5651e46d3cdb762d02d0bf37c9e592"

\* C2: for every input, the empty one included, the string sha256 returns has
\* exactly 64 characters, each in [0-9a-f].
C2_DigestShape ==
    pc = "done" =>
        /\ Len(digest) = 64
        /\ \A k \in 1..Len(digest) : \E d \in 1..16 : CharAt(digest, k) = HexChars[d]

C2_Witness == pc = "done" /\ input = <<>> /\ Len(digest) = 64

\* C3: the buffer apply_padding returns for n bytes has a length that is a
\* positive multiple of 64, the smallest one >= n + 9: one block for 0 and
\* 55 bytes, two blocks for 56, 64 and 119 bytes.
C3_PaddedLength ==
    pc = "create_blocks" =>
        LET n == Len(input)
            L == Len(padded)
        IN  /\ L > 0
            /\ L % 64 = 0
            /\ L >= n + 9
            /\ L - 64 < n + 9
            /\ n \in {0, 55} => L = 64
            /\ n \in {56, 64, 119} => L = 128

C3_Witness == pc = "create_blocks" /\ Len(input) = 119 /\ Len(padded) = 128

\* C4: the padded buffer is the n input bytes unchanged, one byte 0x80,
\* exactly (55 - n) mod 64 zero bytes (a count in 0..63), then n * 8 in
\* exactly 8 bytes, most significant first.
C4_PaddedLayout ==
    pc = "create_blocks" =>
        LET n == Len(input)
            z == (55 - n) % 64
            s == n + 1 + z
        IN  /\ z \in 0..63
            /\ Len(padded) = s + 8
            /\ SubSeq(padded, 1, n) = input
            /\ padded[n + 1] = 128
            /\ \A k \in (n + 2)..s : padded[k] = 0
            /\ \A k \in 1..5 : padded[s + k] = 0
            /\ padded[s + 6] * 65536 + padded[s + 7] * 256 + padded[s + 8] = n * 8

C4_Witness ==
    /\ pc = "create_blocks"
    /\ Len(input) = 56
    /\ padded[57] = 128
    /\ padded[127] = 1
    /\ padded[128] = 192

\* C5 as claimed: when the input length mod 64 is 55, apply_padding inserts a
\* full extra 64-byte block of zeros before the 8-byte length suffix.
C5_ExtraZeroBlock ==
    (pc = "create_blocks" /\ Len(input) % 64 = 55) =>
        LET n == Len(input)
        IN  /\ Len(padded) = n + 1 + 64 + 8
            /\ \A k \in (n + 2)..(n + 65) : padded[k] = 0

\* C5, amended: when the input length mod 64 is 55, apply_padding inserts no
\* zero byte: the 8-byte length suffix follows the 0x80 at once, the buffer
\* has n + 9 bytes and ends with the block the input ends in.
C5_NoZeroPadding ==
    (pc = "create_blocks" /\ Len(input) % 64 = 55) =>
        LET n == Len(input)
        IN  /\ Len(padded) = n + 9
            /\ Len(padded) = ((n \div 64) + 1) * 64
            /\ padded[n + 1] = 128
            /\ \A k \in 1..5 : padded[n + 1 + k] = 0
            /\ padded[n + 7] * 65536 + padded[n + 8] * 256 + padded[n + 9] = n * 8

C5_Witness ==
    /\ pc = "create_blocks"
    /\ Len(input) = 55
    /\ Len(padded) = 64
    /\ padded[56] = 128
    /\ padded[63] = 1
    /\ padded[64] = 184

\* C6: create_blocks fails, returning no blocks, whenever the length of its
\* buffer is not a multiple of 64; a short final chunk never yields a block.
C6_FailsOnShortChunk ==
    (pc \in {"loop", "panic"} /\ Len(padded) % 64 # 0) =>
        (panicked /\ blocks = <<>>)

\* C7: for a buffer of a multiple of 64 bytes, create_blocks returns
\* length / 64 blocks of 64 bytes whose concatenation is the buffer, and
\* sha256 feeds them to the compressor once each, in that order.
C7_BlocksInOrder ==
    (pc \in {"loop", "do_compression", "done"} /\ Len(padded) % 64 = 0) =>
        /\ Len(blocks) = Len(padded) \div 64
        /\ \A k \in 1..Len(blocks) :
              /\ Len(blocks[k]) = 64
              /\ \A j \in 1..64 : blocks[k][j] = padded[(k - 1) * 64 + j]
        /\ fed \o iter = blocks
        /\ pc = "done" => fed = blocks
        /\ pc = "do_compression" => Len(fed) >= 1

C7_Witness ==
    /\ pc = "done"
    /\ Len(padded) = 192
    /\ Len(fed) = 3
    /\ fed[1] # fed[2]

\* sig0 and sig1 of C8, bit by bit.
C8_sig0(x) ==
    WordOf([i \in 0..31 |-> (RotrBit(x, 7, i) + RotrBit(x, 18, i) + ShrBit(x, 3, i)) % 2])

C8_sig1(x) ==
    WordOf([i \in 0..31 |-> (RotrBit(x, 17, i) + RotrBit(x, 19, i) + ShrBit(x, 10, i)) % 2])

\* C8: create_message_schedule returns 64 words; word i < 16 is the block's
\* bytes 4i..4i+3 as a big-endian u32, and word i >= 16 is
\* (sig1(w[i-2]) + w[i-7] + sig0(w[i-15]) + w[i-16]) mod 2^32.
C8_Schedule ==
    pc = "do_compression" =>
        LET block == fed[Len(fed)]
            w(i)  == schedule[i + 1]
            b(i)  == block[i + 1]
        IN  /\ Len(schedule) = 64
            /\ \A i \in 0..15 :
                  w(i) = U32(b(4 * i) * 256 + b(4 * i + 1),
                             b(4 * i + 2) * 256 + b(4 * i + 3))
            /\ \A i \in 16..63 :
                  w(i) = SumMod32(<<C8_sig1(w(i - 2)), w(i - 7),
                                    C8_sig0(w(i - 15)), w(i - 16)>>)

C8_Witness ==
    /\ pc = "do_compression"
    /\ fed = <<Fill(64, 255, 0)>>
    /\ Len(schedule) = 64
    /\ schedule[1] = U32(65535, 65535)

\* Sigma0, Sigma1, Ch and Maj of C9, bit by bit.
C9_Sigma0(x) ==
    WordOf([i \in 0..31 |-> (RotrBit(x, 2, i) + RotrBit(x, 13, i) + RotrBit(x, 22, i)) % 2])

C9_Sigma1(x) ==
    WordOf([i \in 0..31 |-> (RotrBit(x, 6, i) + RotrBit(x, 11, i) + RotrBit(x, 25, i)) % 2])

C9_Ch(x, y, z) ==
    WordOf([i \in 0..31 |-> IF BitOf(x, i) = 1 THEN BitOf(y, i) ELSE BitOf(z, i)])

C9_Maj(x, y, z) ==
    WordOf([i \in 0..31 |-> IF BitOf(x, i) + BitOf(y, i) + BitOf(z, i) >= 2 THEN 1 ELSE 0])

\* The update of round i of C9 on the registers r = (a, b, c, d, e, f, g, h).
C9_Update(r, i, W) ==
    LET a == r[1]  b == r[2]  c == r[3]  d == r[4]
        e == r[5]  f == r[6]  g == r[7]  h == r[8]
        T1 == SumMod32(<<C9_Sigma1(e), C9_Ch(e, f, g), h, CBRT_CONST[i + 1], W[i + 1]>>)
        T2 == SumMod32(<<C9_Sigma0(a), C9_Maj(a, b, c)>>)
    IN  <<SumMod32(<<T1, T2>>), a, b, c, SumMod32(<<d, T1>>), e, f, g>>

\* The updates of rounds lo..hi-1 of C9, in order.
RECURSIVE C9_Updates(_, _, _, _)
C9_Updates(r, W, lo, hi) ==
    IF lo >= hi THEN r
    ELSE IF hi - lo = 1 THEN C9_Update(r, lo, W)
    ELSE LET mid == (lo + hi) \div 2
         IN  CHOOSE result \in {C9_Updates(t, W, mid, hi) :
                                   t \in {C9_Updates(r, W, lo, mid)}} : TRUE

\* What C9 says do_compression returns for the state H and the schedule W.
C9_Returned(H, W) ==
    LET final == C9_Updates(H, W, 0, 64)
    IN  [j \in 1..8 |-> SumMod32(<<H[j], final[j]>>)]

\* C9: do_compression copies the incoming state to the registers a..h,
\* applies the update for i = 0..63 and returns, for each j, incoming
\* state[j] + final register[j] mod 2^32.
C9_Compression ==
    [][pc = "do_compression" => hash' = C9_Returned(hash, schedule)]_vars

C9_Witness ==
    /\ pc = "loop"
    /\ schedule = WordFill(64, 65535, 65535, 0)
    /\ Len(hash) = 8
    /\ hash # SQRT_CONST

\* Hex digit k (0 the first) of the eight digits of the word x.
C10_Digit(x, k) ==
    IF k < 4 THEN (x[1] \div 16^(3 - k)) % 16 ELSE (x[2] \div 16^(7 - k)) % 16

\* C10: get_digest returns the 64-character string whose characters
\* 8j..8j+7 are the zero-padded lowercase hex of word j, most significant
\* first, words in state order, no separator or prefix.
C10_DigestOfState ==
    pc = "done" =>
        /\ Len(digest) = 64
        /\ \A j \in 0..7 : \A k \in 0..7 :
              CharAt(digest, 8 * j + k + 1) = HexChars[C10_Digit(hash[j + 1], k) + 1]

C10_Witness ==
    /\ pc = "done"
    /\ target_endian = "little"
    /\ hash = SQRT_CONST
    /\ digest = "6a09e667bb67ae853c6ef372a54ff53a510e527f9b05688c1f83d9ab5be0cd19"

====
